---- MODULE Spec2Model ----
(***************************************************************************)
(* A model of src/dashboard.py: the Dota 2 friends dashboard.              *)
(*                                                                         *)
(* Six specifications share one set of variables:                         *)
(*   SpecNorm   normalize_ids followed by steam64_to_account_id           *)
(*   SpecSumm   the tail of fetch_matches (outcome derivation) followed   *)
(*              by summarize_matches                                      *)
(*   SpecDerive the same flow over every player slot                      *)
(*   SpecRank   highlight_top_players                                     *)
(*   SpecCache  fetch_matches under @st.cache_data(ttl=300)               *)
(*   Spec       main: normalize, the 7-day and the 30-day collection,     *)
(*              the group highlights                                      *)
(*                                                                         *)
(* Representation.  A text is a sequence of characters, each character a  *)
(* one-element name ("1", ",", "LF", "SUP2", ...).  A Python int is a pair *)
(* <<hi, lo>> standing for hi * Base + lo with 0 <= lo < Base, hi of any  *)
(* sign.  A DataFrame is [cols, rows]: its set of column names and its    *)
(* sequence of rows.  A value rounded to one decimal is kept in tenths.   *)
(***************************************************************************)
EXTENDS Integers, Sequences, FiniteSets, Bags, TLC

VARIABLES
    pc,            \* position of the flow being modelled
    fault,         \* the exception that escaped, "none" when there is none
    steam_input,   \* main: the text area's content
    api_key,       \* main: the API key text input
    steam_ids,     \* main: normalize_ids(steam_input)
    account_ids,   \* the conversions of steam_ids (SpecNorm)
    days,          \* collect_period_summaries: the window
    i,             \* collect_period_summaries: the loop position in steam_ids
    rows,          \* collect_period_summaries: rows
    errors,        \* collect_period_summaries: errors
    weekly,        \* main: (weekly_df, weekly_errors), NotRun before the call returns
    monthly,       \* main: (monthly_df, monthly_errors), NotRun before the call returns
    warning,       \* main: st.warning was shown
    best_week,     \* main: best_week
    worst_week,    \* main: worst_week
    cache,         \* st.cache_data's store for fetch_matches: key -> entry
    now,           \* the clock, in seconds
    sent,          \* the remote requests issued so far, a bag of requests
    ret,           \* SpecCache: what the last fetch_matches call did
    response,      \* SpecSumm: response.json()
    matches,       \* SpecSumm: the frame fetch_matches returns
    summary,       \* SpecSumm: the dict summarize_matches returns
    df,            \* SpecRank: the frame given to highlight_top_players
    metric,        \* SpecRank: metric
    top_n,         \* SpecRank: top_n
    top            \* SpecRank: the frame highlight_top_players returns

inputVars == <<steam_input, api_key, steam_ids, account_ids>>
collectVars == <<days, i, rows, errors, weekly, monthly, warning, best_week, worst_week>>
cacheVars == <<cache, now, sent, ret>>
summVars == <<response, matches, summary>>
rankVars == <<df, metric, top_n, top>>
vars == <<pc, fault, inputVars, collectVars, cacheVars, summVars, rankVars>>

(***************************************************************************)
(* Python ints beyond 32 bits.                                             *)
(***************************************************************************)
Base == 10 ^ 9

\* STEAM_EPOCH = 76561197960265728 = EpochHi * Base + EpochLo
EpochHi == 76561197
EpochLo == 960265728
STEAM_EPOCH == <<EpochHi, EpochLo>>

IntSub(a, b) ==
    IF a[2] - b[2] < 0
        THEN <<a[1] - b[1] - 1, a[2] - b[2] + Base>>
        ELSE <<a[1] - b[1], a[2] - b[2]>>

IntAdd(a, b) ==
    IF a[2] + b[2] >= Base
        THEN <<a[1] + b[1] + 1, a[2] + b[2] - Base>>
        ELSE <<a[1] + b[1], a[2] + b[2]>>

(***************************************************************************)
(* Characters and the str methods the program uses.                       *)
(***************************************************************************)
AsciiDigits == <<"0", "1", "2", "3", "4", "5", "6", "7", "8", "9">>

\* U+00B2 SUPERSCRIPT TWO: str.isdigit() is True, str.isdecimal() is False
\* and int() raises ValueError.
SuperscriptTwo == "SUP2"
LineFeed == "LF"
Comma == ","
Whitespace == {" ", "TAB", LineFeed}

IsDecimalChar(c) == \E k \in 1..Len(AsciiDigits) : AsciiDigits[k] = c

DecimalValue(c) == (CHOOSE k \in 1..Len(AsciiDigits) : AsciiDigits[k] = c) - 1

\* str.isdigit() for one character
IsDigitChar(c) == IsDecimalChar(c) \/ c = SuperscriptTwo

\* str.isdigit(): every character is a digit and there is at least one
StrIsDigit(s) == Len(s) > 0 /\ \A k \in 1..Len(s) : IsDigitChar(s[k])

\* str.replace("\n", ",")
ReplaceLF(s) == [k \in 1..Len(s) |-> IF s[k] = LineFeed THEN Comma ELSE s[k]]

RECURSIVE StrSplit(_)
\* str.split(","): the pieces between commas, empty pieces included
StrSplit(s) ==
    IF \A k \in 1..Len(s) : s[k] # Comma
        THEN <<s>>
        ELSE LET k == CHOOSE j \in 1..Len(s) :
                          s[j] = Comma /\ \A m \in 1..(j - 1) : s[m] # Comma
             IN  <<SubSeq(s, 1, k - 1)>> \o StrSplit(SubSeq(s, k + 1, Len(s)))

RECURSIVE LStrip(_)
LStrip(s) == IF Len(s) > 0 /\ s[1] \in Whitespace THEN LStrip(Tail(s)) ELSE s

RECURSIVE RStrip(_)
RStrip(s) ==
    IF Len(s) > 0 /\ s[Len(s)] \in Whitespace
        THEN RStrip(SubSeq(s, 1, Len(s) - 1))
        ELSE s

\* str.strip()
StrStrip(s) == RStrip(LStrip(s))

ValueError == "ValueError"

RECURSIVE ParseDigits(_, _)
\* the value of the decimal digits s, read left to right onto acc
ParseDigits(s, acc) ==
    IF Len(s) = 0
        THEN acc
        ELSE ParseDigits(Tail(s),
                 <<acc[1] * 10 + (acc[2] \div (Base \div 10)),
                   (acc[2] % (Base \div 10)) * 10 + DecimalValue(s[1])>>)

\* int(s) for a str s without sign or underscore: surrounding whitespace is
\* dropped, what remains must be one or more decimal digits
PyInt(s) ==
    LET t == StrStrip(s)
    IN  IF Len(t) > 0 /\ \A k \in 1..Len(t) : IsDecimalChar(t[k])
            THEN [exc |-> "none", value |-> ParseDigits(t, <<0, 0>>)]
            ELSE [exc |-> ValueError, value |-> <<0, 0>>]

\* Optional[int]: None
None == [is_none |-> TRUE, value |-> <<0, 0>>]

\* steam64_to_account_id
steam64_to_account_id(steam64) ==
    IF PyInt(steam64).exc = ValueError
        THEN None
        ELSE [is_none |-> FALSE, value |-> IntSub(PyInt(steam64).value, STEAM_EPOCH)]

\* normalize_ids
normalize_ids(raw_text) ==
    LET parts == StrSplit(ReplaceLF(raw_text))
        candidates == [k \in 1..Len(parts) |-> StrStrip(parts[k])]
    IN  SelectSeq(candidates, StrIsDigit)

\* DEFAULT_STEAM_IDS
DEFAULT_STEAM_IDS ==
    << <<"7","6","5","6","1","1","9","8","3","5","5","9","2","8","3","4","7">>,
       <<"7","6","5","6","1","1","9","8","2","2","0","7","2","7","7","1","6">> >>

\* "\n".join(DEFAULT_STEAM_IDS)
default_ids == DEFAULT_STEAM_IDS[1] \o <<LineFeed>> \o DEFAULT_STEAM_IDS[2]

(***************************************************************************)
(* DataFrames.                                                             *)
(***************************************************************************)
RECURSIVE SumSeq(_)
SumSeq(s) == IF Len(s) = 0 THEN 0 ELSE Head(s) + SumSeq(Tail(s))

\* pd.DataFrame(records): the columns are the keys of the records, so a frame
\* built from no record has no column
DataFrame(records) ==
    [cols |-> UNION {DOMAIN records[k] : k \in 1..Len(records)}, rows |-> records]

\* df.empty: some axis has length 0
IsEmpty(frame) == Len(frame.rows) = 0 \/ frame.cols = {}

\* df[name] = values: the column is added, or replaced, in every row
SetColumn(frame, name, values) ==
    [cols |-> frame.cols \cup {name},
     rows |-> [k \in 1..Len(frame.rows) |->
                 [c \in (DOMAIN frame.rows[k]) \cup {name} |->
                     IF c = name THEN values[k] ELSE frame.rows[k][c]]]]

\* df[name].tolist()
Column(frame, name) == [k \in 1..Len(frame.rows) |-> frame.rows[k][name]]

\* bool -> int, as Series.sum() counts a bool column
BoolInt(b) == IF b THEN 1 ELSE 0

\* int(df[name].sum()) of a bool column
SumBool(frame, name) ==
    SumSeq([k \in 1..Len(frame.rows) |-> BoolInt(frame.rows[k][name])])

\* pd.to_datetime(seconds, unit="s"): a Timestamp
ToDatetime(seconds) == [sec |-> seconds, nsec |-> 0]

TimestampLeq(a, b) == a.sec < b.sec \/ (a.sec = b.sec /\ a.nsec <= b.nsec)

IntGeq(a, b) == a >= b

RECURSIVE OrdersOf(_)
OrdersOf(S) ==
    IF S = {}
        THEN {<<>>}
        ELSE UNION {{<<x>> \o p : p \in OrdersOf(S \ {x})} : x \in S}

\* every order of n rows: the sequences in which each of 1..n occurs once
RowOrders(n) == OrdersOf(1..n)

\* DataFrame.sort_values(by) with its default kind="quicksort", which is not a
\* stable sort: the row orders it may produce are all those in which the keys
\* are in order.  p[k] is the original position of the row placed k-th.
\* Ascending timestamps (line 58):
AscendingOrders(keys) ==
    {p \in RowOrders(Len(keys)) :
        \A k \in 1..(Len(keys) - 1) : TimestampLeq(keys[p[k]], keys[p[k + 1]])}

\* and descending numbers (line 106, ascending=False):
DescendingOrders(keys) ==
    {p \in RowOrders(Len(keys)) :
        \A k \in 1..(Len(keys) - 1) : IntGeq(keys[p[k]], keys[p[k + 1]])}

\* the one order a stable sort produces: rows of equal key keep their original
\* relative order
StableAmong(orders, keys) ==
    CHOOSE p \in orders :
        \A k \in 1..(Len(keys) - 1) : keys[p[k]] = keys[p[k + 1]] => p[k] < p[k + 1]

Reorder(seq, p) == [k \in 1..Len(seq) |-> seq[p[k]]]

\* round(num / den, 0) as Python rounds: to nearest, ties to even.  The float
\* quotient is exact enough for this to be the result whenever den <= 15.
RoundHalfEven(num, den) ==
    LET q == num \div den
        r == num % den
    IN  IF 2 * r < den THEN q
        ELSE IF 2 * r > den THEN q + 1
        ELSE IF q % 2 = 0 THEN q ELSE q + 1

(***************************************************************************)
(* fetch_matches after the response has arrived (lines 35-44).            *)
(***************************************************************************)
\* variant of derive_win with the boundary slot on the wrong side
derive_win_upto128(row) == (row["player_slot"] <= 128) = row["radiant_win"]

\* the lambda of line 40
derive_win(row) == (row["player_slot"] < 128) = row["radiant_win"]

\* df.apply(F, axis=1) for the three row functions of lines 39-43
ApplyWin(frame) == [k \in 1..Len(frame.rows) |-> derive_win(frame.rows[k])]
ApplyLoss(frame) == [k \in 1..Len(frame.rows) |-> ~frame.rows[k]["win"]]
ApplyDatetime(frame) ==
    [k \in 1..Len(frame.rows) |-> ToDatetime(frame.rows[k]["start_time"])]

\* lines 35-44
fetch_matches_tail(json) ==
    LET m0 == DataFrame(json)
        m1 == SetColumn(m0, "win", ApplyWin(m0))
        m2 == SetColumn(m1, "loss", ApplyLoss(m1))
        m3 == SetColumn(m2, "start_time", ApplyDatetime(m2))
    IN  IF IsEmpty(m0) THEN m0 ELSE m3

(***************************************************************************)
(* summarize_matches.                                                      *)
(***************************************************************************)
KeyError == "KeyError"

RECURSIVE StreakScan(_, _, _)
\* the loop of lines 60-65 over sorted_wins, from (current, best_streak)
StreakScan(sorted_wins, current, best_streak) ==
    IF Len(sorted_wins) = 0
        THEN best_streak
        ELSE IF Head(sorted_wins)
            THEN StreakScan(Tail(sorted_wins), current + 1,
                            IF current + 1 > best_streak THEN current + 1 ELSE best_streak)
            ELSE StreakScan(Tail(sorted_wins), 0, best_streak)

\* line 49
count_wins(frame) == SumBool(frame, "win")

\* variant of count_losses that sums the win column again
count_losses_of_win(frame) == SumBool(frame, "win")

\* line 50
count_losses(frame) == SumBool(frame, "loss")

\* the columns summarize_matches reads of a frame of `total` rows
ColumnsRead(total) ==
    {"win", "loss"} \cup
    (IF total > 0 THEN {"kills", "deaths", "assists", "start_time"} ELSE {})

\* the orders line 58's sort_values may give the rows
StartTimeOrders(frame) ==
    IF "start_time" \in frame.cols
        THEN AscendingOrders(Column(frame, "start_time"))
        ELSE RowOrders(Len(frame.rows))

NoDict == [steam_id |-> <<>>, label |-> <<>>, games |-> 0, wins |-> 0, losses |-> 0,
           win_rate |-> 0, avg_k |-> 0, avg_d |-> 0, avg_a |-> 0, best_streak |-> 0]

\* summarize_matches, `order` being the order sort_values gave the rows;
\* win_rate, avg_k, avg_d and avg_a are in tenths
summarize_matches(frame, steam_id, label, order) ==
    LET total == Len(frame.rows)
        wins == count_wins(frame)
        losses == count_losses(frame)
        sorted_wins == Reorder(Column(frame, "win"), order)
    IN  IF ~(ColumnsRead(total) \subseteq frame.cols)
            THEN [exc |-> KeyError, value |-> NoDict]
            ELSE [exc |-> "none",
                  value |->
                     [steam_id |-> steam_id,
                      label |-> label,
                      games |-> total,
                      wins |-> wins,
                      losses |-> losses,
                      win_rate |-> IF total > 0 THEN RoundHalfEven(wins * 1000, total) ELSE 0,
                      avg_k |-> IF total > 0
                                  THEN RoundHalfEven(10 * SumSeq(Column(frame, "kills")), total)
                                  ELSE 0,
                      avg_d |-> IF total > 0
                                  THEN RoundHalfEven(10 * SumSeq(Column(frame, "deaths")), total)
                                  ELSE 0,
                      avg_a |-> IF total > 0
                                  THEN RoundHalfEven(10 * SumSeq(Column(frame, "assists")), total)
                                  ELSE 0,
                      best_streak |-> IF total > 0 THEN StreakScan(sorted_wins, 0, 0) ELSE 0]]

\* f"Last {days} days"
WindowLabel(d) == <<"Last", d, "days">>

(***************************************************************************)
(* Values of the variables a specification does not use.                  *)
(***************************************************************************)
EmptyFrame == [cols |-> {}, rows |-> <<>>]

NotRun == [ran |-> FALSE, df |-> EmptyFrame, errors |-> <<>>]

NoCall == [called |-> FALSE]

NoResult == [exc |-> "none", value |-> NoDict]

IdleInput ==
    /\ steam_input = <<>>
    /\ api_key = ""
    /\ steam_ids = <<>>
    /\ account_ids = <<>>

IdleCollect ==
    /\ days = 0
    /\ i = 0
    /\ rows = <<>>
    /\ errors = <<>>
    /\ weekly = NotRun
    /\ monthly = NotRun
    /\ warning = FALSE
    /\ best_week = EmptyFrame
    /\ worst_week = EmptyFrame

IdleCache ==
    /\ cache = <<>>
    /\ now = 0
    /\ sent = EmptyBag
    /\ ret = NoCall

IdleSumm ==
    /\ response = <<>>
    /\ matches = EmptyFrame
    /\ summary = NoResult

IdleRank ==
    /\ df = EmptyFrame
    /\ metric = ""
    /\ top_n = 0
    /\ top = EmptyFrame

BoundedSeq(S, n) == UNION {[1..k -> S] : k \in 0..n}

(***************************************************************************)
(* SpecNorm: normalize_ids, then steam64_to_account_id on each token.     *)
(***************************************************************************)
MaxTextLen == 3

NormChars == {"1", "9", SuperscriptTwo, "a", Comma, LineFeed, " "}

\* "123, abc\n456"
ExampleText ==
    <<"1", "2", "3", Comma, " ", "a", "b", "c", LineFeed, "4", "5", "6">>

NormInputs == BoundedSeq(NormChars, MaxTextLen) \cup {default_ids, ExampleText}

InitNorm ==
    /\ pc = "input"
    /\ fault = "none"
    /\ steam_input \in NormInputs
    /\ api_key = ""
    /\ steam_ids = <<>>
    /\ account_ids = <<>>
    /\ IdleCollect /\ IdleCache /\ IdleSumm /\ IdleRank

Normalize ==
    /\ pc = "input"
    /\ steam_ids' = normalize_ids(steam_input)
    /\ pc' = "normalized"
    /\ UNCHANGED <<fault, steam_input, api_key, account_ids,
                   collectVars, cacheVars, summVars, rankVars>>

Convert ==
    /\ pc = "normalized"
    /\ account_ids' = [k \in 1..Len(steam_ids) |-> steam64_to_account_id(steam_ids[k])]
    /\ pc' = "converted"
    /\ UNCHANGED <<fault, steam_input, api_key, steam_ids,
                   collectVars, cacheVars, summVars, rankVars>>

NextNorm == Normalize \/ Convert

SpecNorm == InitNorm /\ [][NextNorm]_vars

(***************************************************************************)
(* SpecSumm, SpecDerive: a response arrives, fetch_matches derives the    *)
(* outcomes, summarize_matches summarizes the frame.                      *)
(***************************************************************************)
MaxMatches == 3

MaxDeriveLen == 1

RawMatch(slots, radiant_wins, times, kills) ==
    [player_slot : slots, radiant_win : radiant_wins, start_time : times,
     kills : kills, deaths : {1}, assists : {2}]

\* chronologically [win, win, loss, win, win, win, loss], listed newest first
\* as the remote lists matches
StreakExample ==
    LET won == <<FALSE, TRUE, TRUE, TRUE, FALSE, TRUE, TRUE>>
    IN  [k \in 1..7 |->
            [player_slot |-> 0, radiant_win |-> won[k], start_time |-> 8 - k,
             kills |-> k, deaths |-> 1, assists |-> 2]]

\* responses of up to MaxMatches matches, won on slot 0 and lost on slot 128
SummResponses ==
    BoundedSeq(RawMatch({0, 128}, {TRUE}, {1, 2}, {0, 1}), MaxMatches)
        \cup {StreakExample}

\* responses of up to MaxDeriveLen matches, the first of any slot and outcome
DeriveResponses ==
    {<<>>} \cup
    {<<first>> \o others :
        first \in RawMatch(0..255, BOOLEAN, {1}, {0}),
        others \in BoundedSeq(RawMatch({127, 128}, BOOLEAN, {1}, {0}), MaxDeriveLen - 1)}

\* a frame of no rows that has the columns of a fetched frame
NoRowsFrame ==
    [cols |-> {"player_slot", "radiant_win", "start_time", "kills", "deaths",
               "assists", "win", "loss"},
     rows |-> <<>>]

SummId == <<"1">>

InitFlow(responses) ==
    /\ fault = "none"
    /\ \/ pc = "responded" /\ response \in responses /\ matches = EmptyFrame
       \/ pc = "fetched" /\ response = <<>> /\ matches = NoRowsFrame
    /\ summary = NoResult
    /\ IdleInput /\ IdleCollect /\ IdleCache /\ IdleRank

InitSumm == InitFlow(SummResponses)

InitDerive == InitFlow(DeriveResponses)

FetchTail ==
    /\ pc = "responded"
    /\ matches' = fetch_matches_tail(response)
    /\ pc' = "fetched"
    /\ UNCHANGED <<fault, response, summary, inputVars, collectVars, cacheVars, rankVars>>

Summarize ==
    /\ pc = "fetched"
    /\ \E order \in StartTimeOrders(matches) :
          LET r == summarize_matches(matches, SummId, WindowLabel(7), order)
          IN  /\ summary' = r
              /\ fault' = r.exc
              /\ pc' = IF r.exc = "none" THEN "summarized" ELSE "crashed"
    /\ UNCHANGED <<response, matches, inputVars, collectVars, cacheVars, rankVars>>

NextSumm == FetchTail \/ Summarize

SpecSumm == InitSumm /\ [][NextSumm]_vars

SpecDerive == InitDerive /\ [][NextSumm]_vars

(***************************************************************************)
(* highlight_top_players and add_loss_rate.                                *)
(***************************************************************************)
\* df.head(n)
HeadRows(seq, n) ==
    IF n >= 0
        THEN SubSeq(seq, 1, IF n < Len(seq) THEN n ELSE Len(seq))
        ELSE SubSeq(seq, 1, IF Len(seq) + n > 0 THEN Len(seq) + n ELSE 0)

\* the columns of line 107, without the metric
DisplayColumns == {"steam_id", "win_rate", "games", "wins", "losses"}

\* the orders line 106's sort_values(metric, ascending=False) may give the rows
MetricOrders(frame, by) ==
    IF by \in frame.cols /\ Len(frame.rows) > 0
        THEN DescendingOrders(Column(frame, by))
        ELSE RowOrders(Len(frame.rows))

\* highlight_top_players, `order` being the order sort_values gave the rows
highlight_top_players(frame, by, n, order) ==
    IF IsEmpty(frame)
        THEN frame
        ELSE LET kept == HeadRows(Reorder(frame.rows, order), n)
                 shown == DisplayColumns \cup {by}
             IN  [cols |-> shown,
                  rows |-> [k \in 1..Len(kept) |-> [c \in shown |-> kept[k][c]]]]

\* add_loss_rate; loss_rate is a float, kept here in thousandths of a percent
add_loss_rate(frame) ==
    IF IsEmpty(frame)
        THEN frame
        ELSE SetColumn(frame, "loss_rate",
                 [k \in 1..Len(frame.rows) |->
                     IF frame.rows[k]["games"] # 0
                         THEN (frame.rows[k]["losses"] * 100000) \div frame.rows[k]["games"]
                         ELSE 0])

(***************************************************************************)
(* SpecRank: highlight_top_players on a frame of summaries.               *)
(***************************************************************************)
MaxPlayers == 3

MaxTopN == 3

\* the summary of a player with the given wins and losses
SummaryOf(id, w, l) ==
    [steam_id |-> id, label |-> WindowLabel(7), games |-> w + l, wins |-> w,
     losses |-> l, win_rate |-> RoundHalfEven(w * 1000, w + l),
     avg_k |-> 50, avg_d |-> 50, avg_a |-> 50,
     best_streak |-> IF w > 0 THEN 1 ELSE 0]

RankRows ==
    {SummaryOf(id, r[1], r[2]) :
        id \in {<<"1">>, <<"9">>}, r \in {<<4, 1>>, <<3, 2>>, <<8, 2>>}}

RankMetrics == {"win_rate", "games"}

InitRank ==
    /\ pc = "given"
    /\ fault = "none"
    /\ \E records \in BoundedSeq(RankRows, MaxPlayers) : df = DataFrame(records)
    /\ metric \in RankMetrics
    /\ top_n \in 0..MaxTopN
    /\ top = EmptyFrame
    /\ IdleInput /\ IdleCollect /\ IdleCache /\ IdleSumm

Rank ==
    /\ pc = "given"
    /\ \E order \in MetricOrders(df, metric) :
          top' = highlight_top_players(df, metric, top_n, order)
    /\ pc' = "ranked"
    /\ UNCHANGED <<fault, df, metric, top_n, inputVars, collectVars, cacheVars, summVars>>

NextRank == Rank

SpecRank == InitRank /\ [][NextRank]_vars

(***************************************************************************)
(* fetch_matches under @st.cache_data(ttl=300).                           *)
(***************************************************************************)
\* ttl=300, in seconds
TTL == 300

\* "limit": 200
MatchLimit == 200

\* timeout=15
RequestTimeout == 15

\* st.cache_data keys an entry by the values of all the function's arguments
CacheKey(account_id, d, key) == <<account_id, d, key>>

\* variant of Fresh in which an entry never expires
FreshForever(entry, t, at_expiry) == TRUE

\* whether a cache entry stored at entry.at is still served at time t; at the
\* very instant of expiry either may happen (at_expiry)
Fresh(entry, t, at_expiry) ==
    t - entry.at < TTL \/ (t - entry.at = TTL /\ at_expiry)

\* lines 29-33: the request sent to the remote
Request(account_id, d, key) ==
    [account_id |-> account_id,
     params |-> IF key # ""
                   THEN [date |-> d, limit |-> MatchLimit, api_key |-> key]
                   ELSE [date |-> d, limit |-> MatchLimit],
     timeout |-> RequestTimeout]

\* what requests.get and raise_for_status raise for each behaviour of the remote
ExceptionOf(kind) ==
    CASE kind = "timeout" -> "Timeout"
      [] kind = "connection_error" -> "ConnectionError"
      [] kind = "http_error" -> "HTTPError"
      [] OTHER -> "none"

Store(c, k, entry) == [x \in (DOMAIN c) \cup {k} |-> IF x = k THEN entry ELSE c[x]]

\* fetch_matches(account_id, d, key) called at time t with cache c, the remote
\* behaving as `remote` if it is asked: the exception raised or the frame
\* returned, the cache afterwards, the requests sent
fetch_matches(c, t, account_id, d, key, remote, at_expiry) ==
    LET k == CacheKey(account_id, d, key)
    IN  IF k \in DOMAIN c /\ Fresh(c[k], t, at_expiry)
            THEN [exc |-> "none", value |-> c[k].value, cache |-> c,
                  requests |-> EmptyBag, hit |-> TRUE]
            ELSE IF remote.kind # "ok"
                THEN [exc |-> ExceptionOf(remote.kind), value |-> EmptyFrame, cache |-> c,
                      requests |-> SetToBag({Request(account_id, d, key)}), hit |-> FALSE]
                ELSE [exc |-> "none",
                      value |-> fetch_matches_tail(remote.json),
                      cache |-> Store(c, k, [at |-> t,
                                             value |-> fetch_matches_tail(remote.json)]),
                      requests |-> SetToBag({Request(account_id, d, key)}), hit |-> FALSE]

Windows == {7, 30}

ApiKeys == {"", "k1"}

\* a win, then a loss, of equal start time
SomeMatches ==
    << [player_slot |-> 0, radiant_win |-> TRUE, start_time |-> 1,
        kills |-> 1, deaths |-> 1, assists |-> 2],
       [player_slot |-> 128, radiant_win |-> TRUE, start_time |-> 1,
        kills |-> 0, deaths |-> 1, assists |-> 2] >>

\* the behaviours of the remote
Remotes ==
    {[kind |-> k, json |-> <<>>] : k \in {"timeout", "connection_error", "http_error"}}
        \cup {[kind |-> "ok", json |-> j] : j \in {<<>>, SomeMatches}}

(***************************************************************************)
(* SpecCache: calls of fetch_matches as time passes.                      *)
(***************************************************************************)
MaxRequests == 2

MaxTicks == 3

\* the clock advances by half the time-to-live
TickSeconds == TTL \div 2

\* the account ids of DEFAULT_STEAM_IDS
CacheAccounts == {steam64_to_account_id(DEFAULT_STEAM_IDS[k]).value : k \in 1..2}

InitCache ==
    /\ pc = "serving"
    /\ fault = "none"
    /\ cache = <<>>
    /\ now = 0
    /\ sent = EmptyBag
    /\ ret = NoCall
    /\ IdleInput /\ IdleCollect /\ IdleSumm /\ IdleRank

CallFetch ==
    /\ pc = "serving"
    /\ BagCardinality(sent) < MaxRequests
    /\ \E account_id \in CacheAccounts, d \in Windows, key \in ApiKeys,
          remote \in Remotes, at_expiry \in BOOLEAN :
          LET r == fetch_matches(cache, now, account_id, d, key, remote, at_expiry)
          IN  /\ cache' = r.cache
              /\ sent' = sent (+) r.requests
              /\ ret' = [called |-> TRUE, account_id |-> account_id, days |-> d,
                         api_key |-> key, hit |-> r.hit, value |-> r.value]
    /\ UNCHANGED <<pc, fault, now, inputVars, collectVars, summVars, rankVars>>

\* time passes.  Only the age of the cache's entries matters to fetch_matches,
\* so the clock is let run only once there is an entry and while calls may
\* still follow.
Tick ==
    /\ pc \in {"serving", "collect"}
    /\ DOMAIN cache # {}
    /\ now < MaxTicks * TickSeconds
    /\ now' = now + TickSeconds
    /\ UNCHANGED <<pc, fault, cache, sent, ret, inputVars, collectVars, summVars, rankVars>>

NextCache == CallFetch \/ Tick

SpecCache == InitCache /\ [][NextCache]_vars

(***************************************************************************)
(* collect_period_summaries and main.                                      *)
(***************************************************************************)
\* requests.RequestException and its subclasses
RequestExceptions == {"HTTPError", "Timeout", "ConnectionError"}

\* line 88
append_invalid_id(errs, sid) ==
    Append(errs, [kind |-> "Invalid Steam64 ID", sid |-> sid, exc |-> "none"])

\* line 93
append_http_error(errs, sid, exc) ==
    Append(errs, [kind |-> "HTTP error", sid |-> sid, exc |-> exc])

\* variant of append_network_error that forgets the entry
drop_network_error(errs, sid, exc) == errs

\* line 96
append_network_error(errs, sid, exc) ==
    Append(errs, [kind |-> "Network error", sid |-> sid, exc |-> exc])

\* the result of fetch_matches when it is not called
NotFetched(c) ==
    [exc |-> "none", value |-> EmptyFrame, cache |-> c, requests |-> EmptyBag, hit |-> FALSE]

\* one iteration of the loop of lines 85-98 for sid, from rows rs and errors es:
\* account_id is line 86's conversion, f what line 91's fetch_matches did,
\* order the row order line 58's sort gave.  exc is the exception that leaves
\* collect_period_summaries.
collect_one(rs, es, sid, account_id, f, d, order) ==
    IF account_id.is_none
        THEN [rows |-> rs, errors |-> append_invalid_id(es, sid), exc |-> "none"]
    ELSE IF f.exc = "HTTPError"
        THEN [rows |-> rs, errors |-> append_http_error(es, sid, f.exc), exc |-> "none"]
    ELSE IF f.exc \in RequestExceptions
        THEN [rows |-> rs, errors |-> append_network_error(es, sid, f.exc), exc |-> "none"]
    ELSE LET r == summarize_matches(f.value, sid, WindowLabel(d), order)
         IN  IF r.exc # "none"
                 THEN [rows |-> rs, errors |-> es, exc |-> r.exc]
                 ELSE [rows |-> Append(rs, r.value), errors |-> es, exc |-> "none"]

\* top_n: int = 3
DefaultTopN == 3

MaxInputLen == 3

MainChars == {"1", SuperscriptTwo, Comma}

MainInputs == BoundedSeq(MainChars, MaxInputLen)

Init ==
    /\ pc = "start"
    /\ fault = "none"
    /\ steam_input \in MainInputs
    /\ api_key \in ApiKeys
    /\ steam_ids = <<>>
    /\ account_ids = <<>>
    /\ IdleCollect /\ IdleCache /\ IdleSumm /\ IdleRank

\* lines 154-157, and the entry into the first collect_period_summaries
MainStart ==
    /\ pc = "start"
    /\ steam_ids' = normalize_ids(steam_input)
    /\ IF Len(normalize_ids(steam_input)) = 0
          THEN /\ warning' = TRUE
               /\ pc' = "stopped"
               /\ UNCHANGED <<days, i>>
          ELSE /\ pc' = "collect"
               /\ days' = 7
               /\ i' = 1
               /\ UNCHANGED warning
    /\ UNCHANGED <<fault, steam_input, api_key, account_ids, rows, errors, weekly, monthly,
                   best_week, worst_week, cacheVars, summVars, rankVars>>

\* one iteration of the loop of collect_period_summaries
CollectNext ==
    /\ pc = "collect"
    /\ i <= Len(steam_ids)
    /\ \E remote \in Remotes, at_expiry \in BOOLEAN :
          LET sid == steam_ids[i]
              account_id == steam64_to_account_id(sid)
              f == IF account_id.is_none
                       THEN NotFetched(cache)
                       ELSE fetch_matches(cache, now, account_id.value, days, api_key,
                                          remote, at_expiry)
          IN  \E order \in StartTimeOrders(f.value) :
                  LET r == collect_one(rows, errors, sid, account_id, f, days, order)
                  IN  /\ cache' = f.cache
                      /\ sent' = sent (+) f.requests
                      /\ rows' = r.rows
                      /\ errors' = r.errors
                      /\ fault' = r.exc
                      /\ IF r.exc = "none"
                            THEN i' = i + 1 /\ pc' = pc
                            ELSE i' = i /\ pc' = "crashed"
    /\ UNCHANGED <<inputVars, days, weekly, monthly, warning, best_week, worst_week,
                   now, ret, summVars, rankVars>>

\* lines 99-100 of the 7-day call, and the entry into the 30-day call
WeeklyReturn ==
    /\ pc = "collect"
    /\ i > Len(steam_ids)
    /\ days = 7
    /\ weekly' = [ran |-> TRUE, df |-> DataFrame(rows), errors |-> errors]
    /\ days' = 30
    /\ i' = 1
    /\ rows' = <<>>
    /\ errors' = <<>>
    /\ UNCHANGED <<pc, fault, inputVars, monthly, warning, best_week, worst_week,
                   cacheVars, summVars, rankVars>>

\* lines 99-100 of the 30-day call
MonthlyReturn ==
    /\ pc = "collect"
    /\ i > Len(steam_ids)
    /\ days = 30
    /\ monthly' = [ran |-> TRUE, df |-> DataFrame(rows), errors |-> errors]
    /\ pc' = "highlights"
    /\ UNCHANGED <<fault, inputVars, days, i, rows, errors, weekly, warning, best_week,
                   worst_week, cacheVars, summVars, rankVars>>

\* lines 184-192
Highlights ==
    /\ pc = "highlights"
    /\ \E o1 \in MetricOrders(weekly.df, "win_rate") :
          best_week' = highlight_top_players(weekly.df, "win_rate", DefaultTopN, o1)
    /\ \E o2 \in MetricOrders(add_loss_rate(weekly.df), "loss_rate") :
          worst_week' = IF ~IsEmpty(weekly.df)
                            THEN highlight_top_players(add_loss_rate(weekly.df), "loss_rate",
                                                       DefaultTopN, o2)
                            ELSE EmptyFrame
    /\ pc' = "done"
    /\ UNCHANGED <<fault, inputVars, days, i, rows, errors, weekly, monthly, warning,
                   cacheVars, summVars, rankVars>>

Next == MainStart \/ CollectNext \/ WeeklyReturn \/ MonthlyReturn \/ Highlights \/ Tick

Spec == Init /\ [][Next]_vars

(***************************************************************************)
(* Properties of normalize_ids and steam64_to_account_id (SpecNorm).      *)
(***************************************************************************)
\* the tokens of a text: split on newlines and commas, trimmed
Tokens(text) ==
    LET parts == StrSplit(ReplaceLF(text))
    IN  [k \in 1..Len(parts) |-> StrStrip(parts[k])]

OnlyDecimalDigits(s) == Len(s) > 0 /\ \A k \in 1..Len(s) : IsDecimalChar(s[k])

\* C9: normalize_ids returns exactly the trimmed tokens made only of decimal
\* digits, in order and with duplicates, and each of them converts, without a
\* conversion error, to int(token) - STEAM_EPOCH (the account id plus
\* STEAM_EPOCH is the token's value).
C9_DigitTokensConvert ==
    /\ pc # "input" => steam_ids = SelectSeq(Tokens(steam_input), OnlyDecimalDigits)
    /\ pc = "converted" =>
          \A k \in 1..Len(steam_ids) :
              /\ ~account_ids[k].is_none
              /\ IntAdd(account_ids[k].value, STEAM_EPOCH)
                    = ParseDigits(steam_ids[k], <<0, 0>>)

(***************************************************************************)
(* Properties of the derivation and of summarize_matches (SpecSumm,       *)
(* SpecDerive).                                                            *)
(***************************************************************************)
\* the length of the longest run of consecutive TRUE in a sequence
LongestWinRun(wins) ==
    LET runs == {r \in (1..Len(wins)) \X (1..Len(wins)) :
                    r[1] <= r[2] /\ \A k \in r[1]..r[2] : wins[k]}
    IN  IF runs = {}
            THEN 0
            ELSE CHOOSE n \in 1..Len(wins) :
                    /\ \E r \in runs : r[2] - r[1] + 1 = n
                    /\ \A r \in runs : r[2] - r[1] + 1 <= n

\* the win column in ascending start_time order, equal times in original order
ChronologicalWins(frame) ==
    Reorder(Column(frame, "win"), StableAmong(AscendingOrders(Column(frame, "start_time")), Column(frame, "start_time")))

ZeroSummary(s) ==
    /\ s.games = 0 /\ s.wins = 0 /\ s.losses = 0 /\ s.win_rate = 0
    /\ s.avg_k = 0 /\ s.avg_d = 0 /\ s.avg_a = 0 /\ s.best_streak = 0

\* C3: summarize_matches on a frame of no rows, the frame fetch_matches returns
\* for a response of zero matches included, returns the all-zero summary and
\* raises nothing.
C3_EmptySummaryIsZero ==
    (pc \in {"summarized", "crashed"} /\ Len(matches.rows) = 0) =>
        (fault = "none" /\ summary.exc = "none" /\ ZeroSummary(summary.value))

\* C5: for a frame with rows, best_streak is the longest run of wins of the rows
\* taken in ascending start_time order with equal times in original order; it is
\* 0 without a win; the example sequence gives 3.
C5_BestStreakStable ==
    (pc = "summarized" /\ Len(matches.rows) > 0) =>
        /\ summary.value.best_streak = LongestWinRun(ChronologicalWins(matches))
        /\ (summary.value.wins = 0 => summary.value.best_streak = 0)
        /\ (response = StreakExample => summary.value.best_streak = 3)

\* the outcome the claim gives a raw record
ExpectedWin(raw) ==
    \/ raw.player_slot \in 0..127 /\ raw.radiant_win
    \/ raw.player_slot \in 128..255 /\ ~raw.radiant_win

\* C6: every fetched record gets win = ((player_slot < 128) = radiant_win) and
\* loss = ~win, its other fields keep their values (start_time the same
\* instant), and the summary counts the derived outcomes.
C6_OutcomeDerived ==
    (pc # "responded" /\ Len(response) > 0) =>
        /\ Len(matches.rows) = Len(response)
        /\ {"win", "loss"} \subseteq matches.cols
        /\ \A k \in 1..Len(response) :
              LET raw == response[k]
                  row == matches.rows[k]
              IN  /\ row.win = ExpectedWin(raw)
                  /\ row.loss = ~row.win
                  /\ \A c \in {"player_slot", "radiant_win", "kills", "deaths", "assists"} :
                        row[c] = raw[c]
                  /\ row.start_time.sec = raw.start_time
                  /\ DOMAIN row = (DOMAIN raw) \cup {"win", "loss"}
        /\ pc = "summarized" =>
              summary.value.wins
                  = Cardinality({k \in 1..Len(response) : ExpectedWin(response[k])})

\* a record on slot 128 of a match radiant won is a loss
C6_Witness ==
    /\ pc = "summarized"
    /\ Len(response) > 0
    /\ response[1].player_slot = 128
    /\ response[1].radiant_win
    /\ ~matches.rows[1].win
    /\ summary.value.losses = Len(response)

\* C10: every summary of derived records has games = wins + losses,
\* 0 <= best_streak <= wins <= games, and best_streak = 0 exactly when wins = 0.
C10_SummaryConsistent ==
    (pc = "summarized" /\ summary.exc = "none") =>
        LET s == summary.value
        IN  /\ s.games = s.wins + s.losses
            /\ 0 <= s.best_streak
            /\ s.best_streak <= s.wins
            /\ s.wins <= s.games
            /\ (s.best_streak = 0 <=> s.wins = 0)

\* two wins around a loss: a streak shorter than the wins
C10_Witness ==
    /\ pc = "summarized"
    /\ Len(response) = 3
    /\ summary.value.games = 3
    /\ summary.value.wins = 2
    /\ summary.value.losses = 1
    /\ summary.value.best_streak = 1

(***************************************************************************)
(* Properties of highlight_top_players (SpecRank).                        *)
(***************************************************************************)
Min(a, b) == IF a < b THEN a ELSE b

\* the rows in descending order of a column, equal values in original order
StableDescending(frame, by) ==
    Reorder(frame.rows, StableAmong(DescendingOrders(Column(frame, by)), Column(frame, by)))

\* C8: highlight_top_players returns exactly min(n, |summaries|) entries: those
\* of largest metric in descending order, entries of equal metric in their
\* original relative order; an empty input gives an empty output.
C8_TopStable ==
    pc = "ranked" =>
        /\ Len(top.rows) = Min(top_n, Len(df.rows))
        /\ Len(df.rows) = 0 => Len(top.rows) = 0
        /\ Len(df.rows) > 0 =>
              \A k \in 1..Len(top.rows) :
                  \A c \in DisplayColumns :
                      top.rows[k][c] = StableDescending(df, metric)[k][c]

(***************************************************************************)
(* Properties of the cache of fetch_matches (SpecCache).                  *)
(***************************************************************************)
\* a step in which fetch_matches was called and left a trace
CallMade == ret' # ret \/ sent' # sent

\* the cache holds an entry for these arguments, stored less than TTL ago
WithinTTL(account_id, d, key) ==
    /\ <<account_id, d, key>> \in DOMAIN cache
    /\ now - cache[<<account_id, d, key>>].at < TTL

\* the cache holds no entry for these arguments, or one stored more than TTL ago
AbsentOrExpired(account_id, d, key) ==
    \/ <<account_id, d, key>> \notin DOMAIN cache
    \/ now - cache[<<account_id, d, key>>].at > TTL

Pick(seq, S) == SelectSeq([k \in 1..Len(seq) |-> <<k, seq[k]>>], LAMBDA e : e[1] \in S)

Ids(seq) == [k \in 1..Len(seq) |-> seq[k][2]]

\* the positions of ids split in two: those of the summaries rs, in order, and
\* those of the errors es, in order
OneOutcomeEach(ids, rs, es) ==
    /\ Len(rs) + Len(es) = Len(ids)
    /\ \E S \in SUBSET (1..Len(ids)) :
          /\ Ids(Pick(ids, S)) = [k \in 1..Len(rs) |-> rs[k].steam_id]
          /\ Ids(Pick(ids, (1..Len(ids)) \ S)) = [k \in 1..Len(es) |-> es[k].sid]

C2_NoFaultEscapes == fault = "none" /\ pc # "crashed"

Ended == pc \in {"done", "stopped", "crashed"}

\* C7: without a valid identifier main stops on the warning before any
\* conversion or request; with one, the 7-day and then the 30-day collection
\* both run, whatever errors the 7-day one met.
C7_BothWindowsRun ==
    LET valid == SelectSeq(Tokens(steam_input), OnlyDecimalDigits)
    IN  /\ (pc # "start" /\ Len(valid) = 0) =>
              /\ pc = "stopped"
              /\ warning
              /\ sent = EmptyBag
              /\ ~weekly.ran /\ ~monthly.ran
        /\ monthly.ran => weekly.ran
        /\ (Ended /\ Len(valid) > 0) => (~warning /\ weekly.ran /\ monthly.ran)

====
